---- MODULE Spec2Model ----
(***************************************************************************)
(* DeathLogger server: the two variants of the upload / browse server.     *)
(*   "A"  src/unnamed/part_000  asynchronous store (fs/promises),          *)
(*        memory-storage multer, crypto.randomUUID ids                     *)
(*   "S"  src/server.js         synchronous store (readFileSync /          *)
(*        writeFileSync), disk-storage multer, nanoid ids, TGA conversion  *)
(* A JSON object is a function from field names to values; a field that    *)
(* is absent from the object is absent from the function's domain.         *)
(***************************************************************************)
EXTENDS Integers, Sequences, FiniteSets, TLC

\* ------------------------------------------------------------------ bounds
MaxRequests == 2        \* requests issued in one behaviour
MaxTicks == 1           \* seconds the server clock advances in one behaviour
MaxRows == 52           \* longest store listed by the home page (SpecPages)
MaxCopper == 20300      \* largest copper amount formatted (SpecPages)
MaxProfileRows == 2     \* longest store a profile is drawn from (SpecPages)
MaxTextLen == 2         \* longest client text rendered into markup (SpecMarkup)

Procs == {1, 2}         \* concurrently open client connections
Epoch == 2              \* server clock (seconds) when the behaviour starts

\* ------------------------------------------------------------ JSON values
Num(n) == [type |-> "number", num |-> n]
Str(s) == [type |-> "string", str |-> s]
null == [type |-> "null"]
\* a URL or file path, kept in its parts: directory, base name, extension
UrlPath(dir, base, ext) == [type |-> "string", dir |-> dir, base |-> base, ext |-> ext]

Has(d, k) == k \in DOMAIN d
Range(seq) == {seq[i] : i \in DOMAIN seq}
\* typeof v === "number"
IsNumber(v) == v.type = "number"
\* the object  { ...lo, ...hi }  (later keys win)
Spread(lo, hi) == hi @@ lo

\* --------------------------------------------------------------- requests
\* the multipart text field `death`: absent, text that is not JSON, or the
\* JSON text of an object
NoField == [kind |-> "absent"]
BadJson == [kind |-> "text", valid |-> FALSE]
JsonText(obj) == [kind |-> "text", valid |-> TRUE, value |-> obj]

P0 == << >>
P1 == [id |-> 0, at |-> Num(1), player |-> "Thrall", realm |-> "Durotar",
       screenshot |-> UrlPath("/evil", 0, ".js")]
P2 == [at |-> Str("soon"), player |-> ""]
P3 == [at |-> Num(5), player |-> "Jaina", realm |-> "Durotar"]
Payloads == {P0, P1, P2, P3}
DeathFields == {NoField, BadJson} \cup {JsonText(o) : o \in Payloads}

\* JSON.parse: the parsed value, or a thrown SyntaxError
JSONparse(raw) ==
  IF raw.valid THEN [ok |-> TRUE, value |-> raw.value] ELSE [ok |-> FALSE]

\* the multipart file part `screenshot`
NoFile == [kind |-> "none"]
FilePart(mime, ext, bytes) ==
  [kind |-> "file", mimetype |-> mime, ext |-> ext, bytes |-> bytes]
PngFile == FilePart("image/png", ".png", "png")
TxtFile == FilePart("text/plain", ".txt", "text")
TgaFile == FilePart("application/octet-stream", ".tga", "tga")
BadTgaFile == FilePart("image/x-tga", ".tga", "garbage")
OddPngFile == FilePart("text/plain", ".png", "png")
FilesA == {NoFile, PngFile, TxtFile}
FilesS == {NoFile, PngFile, TxtFile, TgaFile, BadTgaFile, OddPngFile}

\* ------------------------------------------------------------------ state
VARIABLES
  variant,      \* which of the two servers is deployed: "A" or "S"
  deathsJson,   \* A: content of data/deaths.json
  screens,      \* A: files in data/screens
  dbFile,       \* S: content of data/deaths.json
  uploads,      \* S: files in uploads/
  pc,           \* per connection: where its request handler stands
  req,          \* per connection: the request and the handler's locals
  resp,         \* the last response the server sent
  acked,        \* the uploads answered ok so far
  nextId,       \* ids handed out by crypto.randomUUID / nanoid
  nreq,         \* requests issued
  clock         \* Math.floor(Date.now() / 1000)

vars == <<variant, deathsJson, screens, dbFile, uploads, pc, req, resp, acked, nextId, nreq, clock>>

NoResp == [n |-> 0]
Idle == [n |-> 0]

Init ==
  /\ variant \in {"A", "S"}
  /\ deathsJson = [exists |-> FALSE]
  /\ screens = {}
  /\ dbFile = << >>
  /\ uploads = {}
  /\ pc = [p \in Procs |-> "idle"]
  /\ req = [p \in Procs |-> Idle]
  /\ resp = NoResp
  /\ acked = {}
  /\ nextId = 0
  /\ nreq = 0
  /\ clock = Epoch

\* the clock advances
Tick ==
  /\ clock < Epoch + MaxTicks
  /\ clock' = clock + 1
  /\ UNCHANGED <<variant, deathsJson, screens, dbFile, uploads, pc, req, resp, acked, nextId, nreq>>

\* =================================================== variant A (part_000)
\* loadDeaths: [] when the file is absent, else its array
loadDeaths(f) == IF ~f.exists THEN << >> ELSE f.rows
\* a save that re-reads the file and keeps what it finds there
saveDeathsMerging(arr) ==
  [exists |-> TRUE,
   rows |-> arr \o SelectSeq(IF deathsJson.exists THEN deathsJson.rows ELSE << >>,
                             LAMBDA d : d \notin Range(arr))]
\* saveDeaths: the file holds the whole array
saveDeaths(arr) == [exists |-> TRUE, rows |-> arr]

\* multer fileFilter: the declared content-type alone
fileFilterA(file) == file.mimetype \in {"image/jpeg", "image/png", "image/webp"}

\* extension chosen for the stored screenshot
shotExtA(file) ==
  IF file.mimetype = "image/png" THEN "png"
  ELSE IF file.mimetype = "image/webp" THEN "webp" ELSE "jpg"

\* an unshift that overwrites the first element instead of shifting
unshiftOverwriting(all, death) ==
  IF all = << >> THEN <<death>> ELSE <<death>> \o Tail(all)
\* all.unshift(death)
unshift(all, death) == <<death>> \o all

\* POST /upload, up to the handler's first await
A_Upload(p) ==
  /\ variant = "A"
  /\ pc[p] = "idle"
  /\ nreq < MaxRequests
  /\ nreq' = nreq + 1
  /\ \E deathRaw \in DeathFields, file \in FilesA :
       LET rq == [variant |-> "A", n |-> nreq + 1, death |-> deathRaw, file |-> file]
           reply(status, err) ==
             /\ resp' = [n |-> nreq + 1, request |-> rq,
                                            status |-> status, error |-> err]
             /\ UNCHANGED <<pc, req, nextId>>
       IN
       IF file # NoFile /\ ~fileFilterA(file)
         THEN reply(500, "Unsupported image type")      \* cb(new Error(..)): no handler
       ELSE IF deathRaw = NoField
         THEN reply(400, "Missing death payload")
       ELSE IF ~JSONparse(deathRaw).ok
         THEN reply(500, "SyntaxError")                 \* thrown inside try: catch
       ELSE
         LET id == nextId + 1
             death == Spread(JSONparse(deathRaw).value, [id |-> id])
         IN /\ nextId' = id
            /\ req' = [req EXCEPT ![p] = [n |-> nreq + 1, request |-> rq,
                                          id |-> id, death |-> death]]
            /\ pc' = [pc EXCEPT ![p] = IF file # NoFile THEN "A_write" ELSE "A_load"]
            /\ UNCHANGED resp
  /\ UNCHANGED <<variant, deathsJson, screens, dbFile, uploads, acked, clock>>

\* await fs.writeFile(SHOTS_DIR/name); death.screenshot = `/screens/${name}`
A_WriteShot(p) ==
  /\ pc[p] = "A_write"
  /\ LET r == req[p]
         ext == shotExtA(r.request.file)
         name == [base |-> r.id, ext |-> ext, bytes |-> r.request.file.bytes]
     IN /\ screens' = screens \cup {name}
        /\ req' = [req EXCEPT ![p].death =
                     Spread(r.death, [screenshot |-> UrlPath("/screens", r.id, ext)])]
  /\ pc' = [pc EXCEPT ![p] = "A_load"]
  /\ UNCHANGED <<variant, deathsJson, dbFile, uploads, resp, acked, nextId, nreq, clock>>

\* const all = await loadDeaths(): the read of the file
A_Load(p) ==
  /\ pc[p] = "A_load"
  /\ req' = [req EXCEPT ![p] = req[p] @@ [all |-> loadDeaths(deathsJson)]]
  /\ pc' = [pc EXCEPT ![p] = "A_save"]
  /\ UNCHANGED <<variant, deathsJson, screens, dbFile, uploads, resp, acked, nextId, nreq, clock>>

\* all.unshift(death); await saveDeaths(all); res.json({ ok: true, id, screenshot })
A_Save(p) ==
  /\ pc[p] = "A_save"
  /\ LET r == req[p]
         all == unshift(r.all, r.death)
         shot == IF Has(r.death, "screenshot") THEN r.death.screenshot ELSE null
     IN /\ deathsJson' = saveDeaths(all)
        /\ resp' = [n |-> r.n, request |-> r.request, status |-> 200,
                    ok |-> TRUE, id |-> r.id, screenshot |-> shot]
        /\ acked' = acked \cup {[variant |-> "A", id |-> r.id, request |-> r.request,
                                 now |-> clock, record |-> r.death, loaded |-> r.all]}
  /\ pc' = [pc EXCEPT ![p] = "idle"]
  /\ req' = [req EXCEPT ![p] = Idle]
  /\ UNCHANGED <<variant, screens, dbFile, uploads, nextId, nreq, clock>>

NextA == \E p \in Procs : A_Upload(p) \/ A_WriteShot(p) \/ A_Load(p) \/ A_Save(p)

\* =================================================== variant S (server.js)
\* readDB: the parsed array of the file
readDB(f) == f
\* writeDB: the file holds the whole array
writeDB(rows) == rows

getSafeExtFromMime(mime) ==
  CASE mime = "image/jpeg" -> ".jpg"
    [] mime = "image/png" -> ".png"
    [] mime = "image/webp" -> ".webp"
    [] mime \in {"image/tga", "image/x-tga"} -> ".tga"
    [] OTHER -> ""

\* path.extname(name).toLowerCase() when it is a recognised image extension
extFromOriginalName(ext) ==
  IF ext \in {".jpg", ".jpeg", ".png", ".webp", ".tga"} THEN ext ELSE ""

\* multer fileFilter: the declared content-type or the file name's extension
fileFilterS(file) ==
  LET okMime == file.mimetype \in {"image/jpeg", "image/png", "image/webp", "image/tga",
                                   "image/x-tga", "application/octet-stream"}
      okExt == extFromOriginalName(file.ext) \in {".jpg", ".jpeg", ".png", ".webp", ".tga"}
  IN okMime \/ okExt

\* storage.filename: byName || byMime || ".bin"
storageExt(file) ==
  LET byMime == getSafeExtFromMime(file.mimetype)
      byName == extFromOriginalName(file.ext)
  IN IF byName # "" THEN byName ELSE IF byMime # "" THEN byMime ELSE ".bin"

\* tga2png: the PNG bytes, or a thrown error when the bytes are no TGA image
tga2png(bytes) == IF bytes = "tga" THEN [ok |-> TRUE, png |-> "png-of-tga"] ELSE [ok |-> FALSE]

\* the steps of the conversion that can throw besides tga2png itself:
\* readFileSync, writeFileSync, unlinkSync
Faults == {"none", "read", "write", "unlink"}

\* a conversion that leaves the .tga file in place after a success
convertTgaKeepingOriginal(files, orig, fault) ==
  LET conv == tga2png(orig.bytes)
      dest == [base |-> orig.base, ext |-> ".png", bytes |-> conv.png]
  IN IF fault \in {"read", "write"} \/ ~conv.ok
       THEN [converted |-> FALSE, files |-> files, path |-> orig]
     ELSE IF fault = "unlink"
       THEN [converted |-> FALSE, files |-> files \cup {dest}, path |-> orig]
     ELSE [converted |-> TRUE, files |-> files \cup {dest}, path |-> dest]
\* the try/catch around the conversion of a stored .tga file: the files of the
\* upload directory afterwards and the file the record will name
convertTga(files, orig, fault) ==
  LET conv == tga2png(orig.bytes)
      dest == [base |-> orig.base, ext |-> ".png", bytes |-> conv.png]
  IN IF fault \in {"read", "write"} \/ ~conv.ok
       THEN [converted |-> FALSE, files |-> files, path |-> orig]
     ELSE IF fault = "unlink"
       THEN [converted |-> FALSE, files |-> files \cup {dest}, path |-> orig]
     ELSE [converted |-> TRUE, files |-> (files \cup {dest}) \ {orig}, path |-> dest]

\* the record the handler builds from the parsed payload
buildRecord(id, now, payload, publicPath) ==
  Spread(Spread([id |-> id, receivedAt |-> now], payload),
         [at |-> IF Has(payload, "at") /\ IsNumber(payload.at) THEN payload.at ELSE Num(now),
          player |-> IF Has(payload, "player") /\ payload.player # ""
                       THEN payload.player ELSE "Unknown",
          realm |-> IF Has(payload, "realm") /\ payload.realm # ""
                      THEN payload.realm ELSE "Unknown",
          screenshot |-> publicPath])

\* a push that forgets the rows read before
pushOntoEmpty(rows, record) == <<record>>
\* rows.push(record)
push(rows, record) == Append(rows, record)

\* POST /upload, the multer middleware: filter the file part and store it on disk
S_MulterOf(p, files) ==
  /\ variant = "S"
  /\ pc[p] = "idle"
  /\ nreq < MaxRequests
  /\ nreq' = nreq + 1
  /\ \E deathRaw \in DeathFields, file \in files :
       LET rq == [variant |-> "S", n |-> nreq + 1, death |-> deathRaw, file |-> file]
       IN
       IF file # NoFile /\ ~fileFilterS(file)
         THEN /\ resp' = [n |-> nreq + 1, request |-> rq, file |-> NoFile, status |-> 500,
                          error |-> "Unsupported image type"]
              /\ UNCHANGED <<pc, req, nextId, uploads>>
       ELSE IF file # NoFile
         THEN LET stored == [base |-> nextId + 1, ext |-> storageExt(file), bytes |-> file.bytes]
              IN /\ nextId' = nextId + 1
                 /\ uploads' = uploads \cup {stored}
                 /\ req' = [req EXCEPT ![p] = [n |-> nreq + 1, request |-> rq, file |-> stored]]
                 /\ pc' = [pc EXCEPT ![p] = "S_handler"]
                 /\ UNCHANGED resp
       ELSE /\ req' = [req EXCEPT ![p] = [n |-> nreq + 1, request |-> rq, file |-> NoFile]]
            /\ pc' = [pc EXCEPT ![p] = "S_handler"]
            /\ UNCHANGED <<resp, nextId, uploads>>
  /\ UNCHANGED <<variant, deathsJson, screens, dbFile, acked, clock>>

\* the multer middleware on the file parts the clients of Spec send
S_Multer(p) == S_MulterOf(p, FilesS)

\* POST /upload, the handler of a multipart request: it runs to its response
\* without awaiting anything; faults are the steps of a conversion that may throw
S_HandlerOn(p, faults) ==
  /\ pc[p] = "S_handler"
  /\ LET r == req[p]
         deathRaw == r.request.death
         reply(status, err) ==
           /\ resp' = [n |-> r.n, request |-> r.request, file |-> r.file,
                                          status |-> status, error |-> err]
           /\ UNCHANGED <<dbFile, uploads, acked, nextId>>
     IN
     IF deathRaw = NoField THEN reply(400, "missing_death_json")
     ELSE IF ~JSONparse(deathRaw).ok THEN reply(400, "bad_json")
     ELSE
       LET payload == JSONparse(deathRaw).value
           orig == r.file
           isTga == orig # NoFile /\ orig.ext = ".tga"
       IN
       \E fault \in (IF isTga THEN faults ELSE {"none"}) :
       LET
           conv == IF isTga THEN convertTga(uploads, orig, fault)
                   ELSE [converted |-> FALSE, files |-> uploads, path |-> orig]
           publicPath ==
             IF orig = NoFile THEN null
             ELSE UrlPath("/uploads", conv.path.base, conv.path.ext)
           id == nextId + 1
           now == clock
           record == buildRecord(id, now, payload, publicPath)
           rows == push(readDB(dbFile), record)
       IN /\ uploads' = conv.files
          /\ nextId' = id
          /\ dbFile' = writeDB(rows)
          /\ resp' = [n |-> r.n, request |-> r.request, file |-> r.file,
                                          status |-> 200, ok |-> TRUE, id |-> id]
          /\ acked' = acked \cup {[variant |-> "S", id |-> id, request |-> r.request,
                                   now |-> now, record |-> record, file |-> r.file,
                                   converted |-> conv.converted]}
  /\ pc' = [pc EXCEPT ![p] = "idle"]
  /\ req' = [req EXCEPT ![p] = Idle]
  /\ UNCHANGED <<variant, deathsJson, screens, nreq, clock>>

\* the handler on a disk whose reads, writes and unlinks succeed
S_Handler(p) == S_HandlerOn(p, {"none"})

NextS == \E p \in Procs : S_Multer(p) \/ S_Handler(p)

Next == Tick \/ NextA \/ NextS

Spec == Init /\ [][Next]_vars

\* ---- server.js with screenshots that need conversion, on a disk that may fail
TgaFiles == {PngFile, TgaFile, BadTgaFile}
S_MulterTga(p) == S_MulterOf(p, TgaFiles)
S_HandlerFaulty(p) == S_HandlerOn(p, Faults)

ConvertInit == Init /\ variant = "S"

ConvertNext == \E p \in Procs : S_MulterTga(p) \/ S_HandlerFaulty(p)

SpecConvert == ConvertInit /\ [][ConvertNext]_vars

\* ============================================================ read side
\* the records of the deployed server's store
Store == IF variant = "A" THEN loadDeaths(deathsJson) ELSE readDB(dbFile)

\* rows.find(r => r.id === id): the first record with that id
find(rows, id) ==
  LET hits == {i \in DOMAIN rows : Has(rows[i], "id") /\ rows[i].id = id}
  IN IF hits = {} THEN [found |-> FALSE]
     ELSE [found |-> TRUE, value |-> rows[CHOOSE i \in hits : \A j \in hits : i <= j]]

\* GET /api/death/:id (A), GET /api/deaths/:id (S): 404 or the record
apiDeath(id) ==
  LET d == find(Store, id)
  IN IF ~d.found THEN [status |-> 404, error |-> "not_found"]
     ELSE [status |-> 200, json |-> d.value]

\* the payload a request carried
PayloadOf(rq) == JSONparse(rq.death).value
\* a step sends a response
Responds == resp'.n # resp.n

\* ======================================================= the read routes
HomePageSize == 50

\* (d.at ?? 0) of the sort comparator
atKey(d) == IF Has(d, "at") /\ IsNumber(d.at) THEN d.at.num ELSE 0

\* a sort that puts the oldest first
RECURSIVE sortByAtAscending(_)
sortByAtAscending(rows) ==
  IF rows = << >> THEN << >>
  ELSE LET rest == sortByAtAscending(SubSeq(rows, 1, Len(rows) - 1))
           d == rows[Len(rows)]
           older == SelectSeq(rest, LAMBDA x : atKey(x) <= atKey(d))
           newer == SelectSeq(rest, LAMBDA x : atKey(x) > atKey(d))
       IN older \o <<d>> \o newer

\* rows.sort((a, b) => (b.at ?? 0) - (a.at ?? 0)): stable, newest first
RECURSIVE insertByAt(_, _)
insertByAt(sorted, d) ==
  IF sorted = << >> THEN <<d>>
  ELSE IF atKey(Head(sorted)) >= atKey(d) THEN <<Head(sorted)>> \o insertByAt(Tail(sorted), d)
  ELSE <<d>> \o sorted
RECURSIVE sortByAt(_)
sortByAt(rows) ==
  IF rows = << >> THEN << >>
  ELSE insertByAt(sortByAt(SubSeq(rows, 1, Len(rows) - 1)), rows[Len(rows)])

\* deaths.slice(0, n)
slice(deaths, n) == SubSeq(deaths, 1, IF Len(deaths) < n THEN Len(deaths) ELSE n)

\* GET / : the records whose cards the home page shows, in page order
homeS(rows) == sortByAt(rows)
homeA(deaths) == slice(deaths, HomePageSize)

\* moneyString (S): the gold, silver, copper numbers it prints
moneyString(d) ==
  IF Has(d, "moneyCopper")
    THEN [shown |-> TRUE, g |-> d.moneyCopper \div 10000,
          s |-> (d.moneyCopper % 10000) \div 100, c |-> d.moneyCopper % 100]
    ELSE [shown |-> TRUE,
          g |-> IF Has(d, "moneyGold") THEN d.moneyGold ELSE 0,
          s |-> IF Has(d, "moneySilver") THEN d.moneySilver ELSE 0,
          c |-> IF Has(d, "moneyCopperOnly") THEN d.moneyCopperOnly ELSE 0]

\* fmtMoneyHTML (A): the gold, silver, copper numbers it prints, or nothing
fmtMoneyHTML(d) ==
  IF Has(d, "moneyGold") \/ Has(d, "moneySilver") \/ Has(d, "moneyCopper")
    THEN [shown |-> TRUE,
          g |-> IF Has(d, "moneyGold") THEN d.moneyGold ELSE 0,
          s |-> IF Has(d, "moneySilver") THEN d.moneySilver ELSE 0,
          c |-> IF Has(d, "moneyCopper") THEN d.moneyCopper ELSE 0]
  ELSE IF Has(d, "moneyCopperOnly")
    THEN LET total == d.moneyCopperOnly
         IN [shown |-> TRUE, g |-> total \div 10000, s |-> (total % 10000) \div 100,
             c |-> total % 100]
  ELSE [shown |-> FALSE]

\* GET /
GetHome ==
  /\ nreq < MaxRequests
  /\ nreq' = nreq + 1
  /\ resp' = [n |-> nreq + 1, request |-> [variant |-> variant, route |-> "/"], status |-> 200,
              cards |-> IF variant = "A" THEN homeA(loadDeaths(deathsJson))
                        ELSE homeS(readDB(dbFile))]
  /\ UNCHANGED <<variant, deathsJson, screens, dbFile, uploads, pc, req, acked, nextId, clock>>

\* GET /death/:id
GetDeath(id) ==
  /\ nreq < MaxRequests
  /\ nreq' = nreq + 1
  /\ LET d == find(Store, id)
         rq == [variant |-> variant, route |-> "/death/:id", id |-> id]
     IN resp' = IF ~d.found
                  THEN [n |-> nreq + 1, request |-> rq, status |-> 404]
                  ELSE [n |-> nreq + 1, request |-> rq, status |-> 200, record |-> d.value,
                        money |-> IF variant = "A" THEN fmtMoneyHTML(d.value)
                                  ELSE moneyString(d.value)]
  /\ UNCHANGED <<variant, deathsJson, screens, dbFile, uploads, pc, req, acked, nextId, clock>>

\* a % n of JavaScript: the remainder has the sign of a
jsMod(a, n) == IF a >= 0 THEN a % n ELSE -((-a) % n)

\* slugFor: `${d.player ?? "Unknown"}@${d.realm ?? "Unknown"}`
slugFor(d) ==
  LET p == IF Has(d, "player") THEN d.player ELSE "Unknown"
      r == IF Has(d, "realm") THEN d.realm ELSE "Unknown"
  IN p \o "@" \o r

\* deaths.filter((d) => slugFor(d) === slug)
filterBySlug(deaths, slug) == SelectSeq(deaths, LAMBDA d : slugFor(d) = slug)

\* the sum and the number of the numeric moneyCopperOnly values
RECURSIVE copperSum(_)
copperSum(deaths) ==
  IF deaths = << >> THEN 0
  ELSE (IF Has(Head(deaths), "moneyCopperOnly") THEN Head(deaths).moneyCopperOnly ELSE 0)
         + copperSum(Tail(deaths))
copperCount(deaths) == Cardinality({i \in DOMAIN deaths : Has(deaths[i], "moneyCopperOnly")})

\* tallyTotals: { gold: null } or the g, s, c numbers of `${g}g ${s}s ${c}c`
tallyTotals(deaths) ==
  LET sum == copperSum(deaths)
  IN IF copperCount(deaths) = 0 THEN [shown |-> FALSE]
     ELSE [shown |-> TRUE, g |-> sum \div 10000, s |-> jsMod(sum, 10000) \div 100,
           c |-> jsMod(sum, 100)]

\* GET /player/:slug (a route of part_000 only)
GetPlayer(slug) ==
  /\ variant = "A"
  /\ nreq < MaxRequests
  /\ nreq' = nreq + 1
  /\ LET mine == filterBySlug(loadDeaths(deathsJson), slug)
         rq == [variant |-> variant, route |-> "/player/:slug", slug |-> slug]
     IN resp' = IF Len(mine) = 0
                  THEN [n |-> nreq + 1, request |-> rq, status |-> 404]
                  ELSE [n |-> nreq + 1, request |-> rq, status |-> 200, cards |-> mine,
                        totalDeaths |-> Len(mine), totals |-> tallyTotals(mine)]
  /\ UNCHANGED <<variant, deathsJson, screens, dbFile, uploads, pc, req, acked, nextId, clock>>

\* ---- the stores the read routes are checked on
\* the record an upload of `payload` leaves in the store of server v
stored(v, id, payload) ==
  IF v = "A" THEN Spread(payload, [id |-> id]) ELSE buildRecord(id, Epoch, payload, null)

\* the payload's timestamp of the i-th of n uploads
atOf(pattern, i, n) ==
  CASE pattern = "rising" -> i
    [] pattern = "falling" -> n - i
    [] pattern = "mixed" -> (i * 7) % 5
    [] OTHER -> 1

ListedStores(v) ==
  {[i \in 1..n |-> stored(v, i, [at |-> Num(atOf(pattern, i, n)), player |-> "Thrall",
                                 realm |-> "Durotar"])] :
     n \in 0..MaxRows, pattern \in {"rising", "falling", "mixed", "same"}}

MoneyPayloads ==
  {[moneyCopperOnly |-> t] : t \in 0..MaxCopper}
    \cup {[moneyGold |-> g, moneySilver |-> s, moneyCopper |-> c] :
            g \in {0, 1, 2}, s \in {0, 23, 99}, c \in {0, 45, 99}}
    \cup {P0}

MoneyStores(v) == {<<stored(v, 1, m)>> : m \in MoneyPayloads}

\* payloads of the characters whose profiles are asked for
ProfilePayloads ==
  {who @@ where @@ money :
     who \in {<< >>, [player |-> "Thrall"], [player |-> "Jaina"]},
     where \in {<< >>, [realm |-> "Durotar"]},
     money \in {<< >>} \cup {[moneyCopperOnly |-> t] : t \in {-150, 50, 100, 12345}}}

ProfileStores(v) ==
  IF v # "A" THEN {}
  ELSE UNION {[1..n -> ProfilePayloads] : n \in 0..MaxProfileRows}

\* the store after uploads of the payloads, newest first, ids as handed out
uploadedA(payloads) ==
  [i \in DOMAIN payloads |-> stored("A", Len(payloads) + 1 - i, payloads[i])]

PagesInit ==
  /\ variant \in {"A", "S"}
  /\ \E rows \in ListedStores(variant) \cup MoneyStores(variant)
                   \cup {uploadedA(ps) : ps \in ProfileStores(variant)} :
       /\ deathsJson = (IF variant = "A" THEN saveDeaths(rows) ELSE [exists |-> FALSE])
       /\ dbFile = (IF variant = "S" THEN writeDB(rows) ELSE << >>)
  /\ screens = {}
  /\ uploads = {}
  /\ pc = [p \in Procs |-> "idle"]
  /\ req = [p \in Procs |-> Idle]
  /\ resp = NoResp
  /\ acked = {}
  /\ nextId = 0
  /\ nreq = 0
  /\ clock = Epoch

\* ids looked up: one that was never stored, and the first two stored
LookedUp == {0, 1, 2}

\* profiles asked for
Slugs == {"Thrall@Durotar", "Jaina@Durotar", "Thrall@Unknown", "Unknown@Unknown",
          "Nobody@Nowhere"}

PagesNext ==
  \/ GetHome
  \/ \E id \in LookedUp : GetDeath(id)
  \/ \E slug \in Slugs : GetPlayer(slug)

SpecPages == PagesInit /\ [][PagesNext]_vars

\* ---- rendering of the HTML pages ----
\* A text is a sequence of characters; in rendered markup an entity is one
\* element of the sequence, and a literal piece of a template is one element.
Chars == {"a", "&", "<", ">", "\"", "'"}
Texts == UNION {[1..n -> Chars] : n \in 0..MaxTextLen}
Lit(str) == <<str>>

\* String.prototype.replaceAll with a one-character pattern
replaceAll(s, ch, entity) == [i \in DOMAIN s |-> IF s[i] = ch THEN entity ELSE s[i]]

\* escapeHtml of both files: & < > " and nothing else
escapeHtml(s) ==
  replaceAll(replaceAll(replaceAll(replaceAll(s, "&", "&amp;"), "<", "&lt;"), ">", "&gt;"),
             "\"", "&quot;")
\* escapeAttr of server.js
escapeAttr(s) == replaceAll(escapeHtml(s), "'", "&#39;")

\* a || b on texts: the empty text is falsy
OrElse(a, b) == IF a = << >> THEN b ELSE a

\* fmtKiller of part_000 on a killer with only sourceName
fmtKiller(d) ==
  IF ~Has(d, "killer") THEN Lit("Unknown")
  ELSE OrElse(d.killer, Lit("Unknown")) \o Lit(" (") \o Lit("Unknown") \o Lit(")")

\* readableItemLink / itemNameFromLink on a link without the |h[...]|h part
readableItemLink(link) == link
itemNameFromLink(link) == << >>

\* deathCard of part_000: the interpolations, by the value they carry
deathCard(d) ==
  [id |-> d.id,
   player |-> escapeHtml(d.player),
   realm |-> escapeHtml(d.realm),
   location |-> escapeHtml(d.zone \o Lit(" ")),
   class |-> IF d.class = << >> /\ d.level = << >> THEN << >>
             ELSE escapeHtml(d.class
                    \o (IF d.class # << >> /\ d.level # << >> THEN Lit(" · ") ELSE << >>)
                    \o (IF d.level # << >> THEN Lit("Lv. ") \o d.level ELSE << >>)),
   killer |-> escapeHtml(fmtKiller(d)),
   screenshot |-> d.screenshot]

\* deathDetail of part_000: the card and the equipped item names
deathDetail(d) ==
  deathCard(d) @@
    [item |-> IF d.item = << >> THEN << >> ELSE escapeHtml(readableItemLink(d.item))]

\* slug.split("@"): the pieces before the first and the second "@"
splitAt(slug) ==
  LET ats == {i \in DOMAIN slug : slug[i] = "@"}
      first == IF ats = {} THEN Len(slug) + 1 ELSE CHOOSE i \in ats : \A j \in ats : i <= j
      rest == SubSeq(slug, first + 1, Len(slug))
      ats2 == {i \in DOMAIN rest : rest[i] = "@"}
      second == IF ats2 = {} THEN Len(rest) + 1 ELSE CHOOSE i \in ats2 : \A j \in ats2 : i <= j
  IN <<SubSeq(slug, 1, first - 1), SubSeq(rest, 1, second - 1)>>

\* profilePage of part_000: the header from the slug, and the cards
profilePage(slug, d) ==
  [headPlayer |-> escapeHtml(splitAt(slug)[1]),
   headRealm |-> escapeHtml(splitAt(slug)[2])] @@ deathCard(d)

\* summaryCard of server.js
summaryCard(d) ==
  [id |-> d.id,
   player |-> escapeHtml(OrElse(d.player, Lit("Unknown"))),
   realm |-> escapeHtml(OrElse(d.realm, Lit("?"))),
   location |-> escapeHtml(OrElse(d.zone, Lit("Unknown"))),
   killer |-> escapeHtml(OrElse(d.killer, Lit("Unknown"))),
   class |-> escapeHtml(OrElse(d.class, Lit("?"))),
   level |-> escapeHtml(d.level),
   screenshot |-> IF d.screenshot = << >> THEN << >> ELSE escapeAttr(d.screenshot)]

\* detailView of server.js, with renderBags for one item
detailView(d) ==
  [player |-> escapeHtml(OrElse(d.player, Lit("Unknown"))),
   realm |-> escapeHtml(OrElse(d.realm, Lit("?"))),
   location |-> escapeHtml(OrElse(d.zone, Lit("Unknown"))),
   killer |-> escapeHtml(OrElse(d.killer, Lit("Unknown"))),
   class |-> escapeHtml(OrElse(d.class, Lit("?"))),
   level |-> escapeHtml(d.level),
   screenshot |-> IF d.screenshot = << >> THEN << >> ELSE escapeAttr(d.screenshot),
   item |-> escapeHtml(OrElse(itemNameFromLink(d.item), Lit("Unknown Item"))),
   itemTitle |-> IF d.item = << >> THEN << >> ELSE escapeAttr(d.item),
   rawJson |-> escapeHtml(d.player \o d.realm \o d.class \o d.level \o d.zone
                            \o d.killer \o d.item \o d.id)]

\* the one record of a rendered store
Rendered == Store[1]

\* GET / of both files
RenderHome ==
  /\ nreq < MaxRequests
  /\ nreq' = nreq + 1
  /\ resp' = [n |-> nreq + 1, request |-> [variant |-> variant, route |-> "/"],
              status |-> 200,
              slots |-> IF variant = "A" THEN deathCard(Rendered) ELSE summaryCard(Rendered)]
  /\ UNCHANGED <<variant, deathsJson, screens, dbFile, uploads, pc, req, acked, nextId, clock>>

\* GET /death/:id of both files, for the id of the record
RenderDetail ==
  /\ nreq < MaxRequests
  /\ nreq' = nreq + 1
  /\ resp' = [n |-> nreq + 1, request |-> [variant |-> variant, route |-> "/death/:id"],
              status |-> 200,
              slots |-> IF variant = "A" THEN deathDetail(Rendered) ELSE detailView(Rendered)]
  /\ UNCHANGED <<variant, deathsJson, screens, dbFile, uploads, pc, req, acked, nextId, clock>>

\* GET /player/:slug of part_000, for the slug of the record
RenderProfile ==
  /\ variant = "A"
  /\ nreq < MaxRequests
  /\ nreq' = nreq + 1
  /\ LET slug == slugFor(Rendered)
     IN resp' = [n |-> nreq + 1,
                 request |-> [variant |-> variant, route |-> "/player/:slug", slug |-> slug],
                 status |-> 200, slots |-> profilePage(slug, Rendered)]
  /\ UNCHANGED <<variant, deathsJson, screens, dbFile, uploads, pc, req, acked, nextId, clock>>

\* the record every field of which is harmless
PlainRecord ==
  [id |-> Lit("7"), player |-> <<"a">>, realm |-> <<"a">>, class |-> <<"a">>,
   level |-> <<"a">>, zone |-> <<"a">>, killer |-> <<"a">>, item |-> <<"a">>,
   screenshot |-> << >>]

\* the fields a client sets in a stored record: the id only in server.js (where
\* the payload overrides it), the screenshot only in part_000 (where an upload
\* without a file keeps the payload's)
ClientFields(v) ==
  {"player", "realm", "class", "level", "zone", "killer", "item"}
    \cup (IF v = "S" THEN {"id"} ELSE {"screenshot"})

MarkupInit ==
  /\ variant \in {"A", "S"}
  /\ \E f \in ClientFields(variant), t \in Texts :
       LET d == [PlainRecord EXCEPT ![f] = t]
       IN /\ deathsJson = (IF variant = "A" THEN saveDeaths(<<d>>) ELSE [exists |-> FALSE])
          /\ dbFile = (IF variant = "S" THEN writeDB(<<d>>) ELSE << >>)
  /\ screens = {}
  /\ uploads = {}
  /\ pc = [p \in Procs |-> "idle"]
  /\ req = [p \in Procs |-> Idle]
  /\ resp = NoResp
  /\ acked = {}
  /\ nextId = 0
  /\ nreq = 0
  /\ clock = Epoch

MarkupNext == RenderHome \/ RenderDetail \/ RenderProfile

SpecMarkup == MarkupInit /\ [][MarkupNext]_vars

\* ================================================================ claims

\* C1: no two records of the store have the same id, and the id of every
\* stored record is the id the server generated for (and returned to) the
\* request that stored it.
C1_UniqueServerIds ==
  /\ \A i, j \in DOMAIN Store : i # j => Store[i].id # Store[j].id
  /\ \A i \in DOMAIN Store :
       \E a \in acked : a.record = Store[i] /\ Store[i].id = a.id

\* a payload whose fields have the types of the data model: at a number,
\* player and realm non-empty strings, where they are given
WellTyped(payload) ==
  /\ Has(payload, "at") => IsNumber(payload.at)
  /\ Has(payload, "player") => payload.player # ""
  /\ Has(payload, "realm") => payload.realm # ""
\* the fields the server assigns itself
ServerAssigned == {"id", "screenshot"}

\* C2: every upload of a payload without a file that was answered ok is found
\* by a later lookup of the returned id, and the record found carries every
\* submitted field (other than those the server assigns) with the submitted
\* value.
C2_RetrievableEcho ==
  \A a \in acked :
    (a.request.file = NoFile /\ WellTyped(PayloadOf(a.request))) =>
      LET got == apiDeath(a.id)
          payload == PayloadOf(a.request)
      IN /\ got.status = 200
         /\ \A k \in DOMAIN payload \ ServerAssigned :
              Has(got.json, k) /\ got.json[k] = payload[k]

\* the declared content-type of a file part is outside the deployed server's
\* allow-list of image types (and, where the server also goes by the file
\* name, so is the extension)
OutsideAllowList(file) ==
  /\ file # NoFile
  /\ IF variant = "A"
       THEN file.mimetype \notin {"image/jpeg", "image/png", "image/webp"}
       ELSE /\ file.mimetype \notin {"image/jpeg", "image/png", "image/webp", "image/tga",
                                     "image/x-tga", "application/octet-stream"}
            /\ file.ext \notin {".jpg", ".jpeg", ".png", ".webp", ".tga"}

\* C3: a request whose file has a declared content-type outside the allow-list
\* is answered with UnsupportedMediaType (a 4xx status), and the store is left
\* as it was.
C3_UnsupportedMediaType ==
  [][(Responds /\ OutsideAllowList(resp'.request.file))
       => (resp'.status \in 400..499 /\ Store' = Store)]_vars

\* the death field is missing or is not JSON
BadDeath(rq) == rq.death = NoField \/ ~JSONparse(rq.death).ok

\* C4: a request whose death field is missing or does not parse is answered
\* 400 and has no side effect: the store is unchanged and the request leaves
\* no image file in the upload directory.
C4_BadRequestNoSideEffect ==
  [][(Responds /\ BadDeath(resp'.request))
       => /\ resp'.status = 400
          /\ Store' = Store
          /\ screens' = screens
          /\ (variant = "S" /\ resp'.file # NoFile => resp'.file \notin uploads')]_vars

\* C5 as stated: every record of the store is still in the store, with the
\* same id and field values, after every step of the server.
C5_NeverDropped ==
  [][\A i \in DOMAIN Store : Store[i] \in Range(Store')]_vars

\* connection p completes its save in this step
Saves(p) == pc[p] = "A_save" /\ pc'[p] = "idle"

\* C5 as amended: a record leaves the store only in the asynchronous variant,
\* and only in the save of an upload that loaded the file before the record
\* was written to it; every other step keeps every record unchanged.
C5_DroppedOnlyByStaleSave ==
  [][\A i \in DOMAIN Store :
       \/ Store[i] \in Range(Store')
       \/ /\ variant = "A"
          /\ \E p \in Procs : Saves(p) /\ Store[i] \notin Range(req[p].all)]_vars

\* uploads stored one after the other, the earlier records kept by the later
C5_Witness ==
  /\ Len(Store) >= 2
  /\ \A a \in acked : a.record \in Range(Store)

\* two uploads were both loaded before either was saved
Raced(a, b) ==
  /\ a # b
  /\ a.variant = "A" /\ b.variant = "A"
  /\ a.record \notin Range(b.loaded)
  /\ b.record \notin Range(a.loaded)

\* C6: when two uploads of the asynchronous variant interleave so that both
\* load before either saves, both are answered ok and the store never holds
\* both records: the one saved first is dropped by the save of the other.
C6_LostUpdate ==
  \A a, b \in acked : Raced(a, b) => ~(a.record \in Range(Store) /\ b.record \in Range(Store))

\* both uploads answered ok, one record in the store, the other one lost
C6_Witness ==
  \E a, b \in acked :
    /\ Raced(a, b)
    /\ Cardinality(acked) = 2
    /\ Store = <<b.record>> \o b.loaded
    /\ a.record \notin Range(Store)

\* C7: the screenshot of every stored record is absent, null, or the path the
\* server generated for the file it stored during the same upload request.
C7_ScreenshotServerSet ==
  \A i \in DOMAIN Store :
    LET d == Store[i]
    IN \/ ~Has(d, "screenshot")
       \/ d.screenshot = null
       \/ \E a \in acked :
            /\ a.record = d
            /\ a.request.file # NoFile
            /\ d.screenshot.dir = (IF variant = "A" THEN "/screens" ELSE "/uploads")
            /\ \E f \in screens \cup uploads :
                 f.base = d.screenshot.base /\ f.ext = d.screenshot.ext

\* a payload field counts as present when it is there and not the empty string
Present(payload, k) == Has(payload, k) /\ payload[k] # ""

\* C8: every accepted upload's record has at, player and realm: at is the
\* payload's at when that is a number and else the receipt time; player and
\* realm are the payload's values when present and else the placeholder.
C8_Defaults ==
  \A a \in acked :
    LET d == a.record
        payload == PayloadOf(a.request)
    IN /\ Has(d, "at") /\ Has(d, "player") /\ Has(d, "realm")
       /\ d.at = (IF Has(payload, "at") /\ IsNumber(payload.at) THEN payload.at ELSE Num(a.now))
       /\ d.player = (IF Present(payload, "player") THEN payload.player ELSE "Unknown")
       /\ d.realm = (IF Present(payload, "realm") THEN payload.realm ELSE "Unknown")

\* the last response is a home page
IsHome == resp.n > 0 /\ resp.request.route = "/"
\* newest first
NewestFirst(cards) ==
  \A i, j \in DOMAIN cards : i < j => atKey(cards[i]) >= atKey(cards[j])
\* how often a record occurs in a sequence
Count(seq, d) == Cardinality({i \in DOMAIN seq : seq[i] = d})

\* C9 as stated: the home page lists the records newest first by at, whatever
\* their order in the store, and never more than the page size.
C9_SortedAndCapped ==
  IsHome => NewestFirst(resp.cards) /\ Len(resp.cards) <= HomePageSize

\* C9 as amended: server.js lists every record of the store, newest first by
\* at, without a cap; part_000 lists the first HomePageSize records of the
\* store in store order, whatever their at.
C9_HomePerVariant ==
  IsHome =>
    IF variant = "S"
      THEN /\ NewestFirst(resp.cards)
           /\ Len(resp.cards) = Len(Store)
           /\ \A d \in Range(Store) : Count(resp.cards, d) = Count(Store, d)
      ELSE /\ Len(resp.cards) = (IF Len(Store) < HomePageSize THEN Len(Store) ELSE HomePageSize)
           /\ \A i \in DOMAIN resp.cards : resp.cards[i] = Store[i]

\* part_000 cut a longer store to a full page that is not newest first, or
\* server.js listed more than a page of records that it had to reorder
C9_Witness ==
  /\ IsHome
  /\ Len(Store) > HomePageSize
  /\ IF variant = "A"
       THEN Len(resp.cards) = HomePageSize /\ ~NewestFirst(resp.cards)
       ELSE Len(resp.cards) > HomePageSize /\ ~NewestFirst(Store)
  /\ variant = "A"

\* C10: a record with moneyCopperOnly = T is shown as T div 10000 gold,
\* (T mod 10000) div 100 silver, T mod 100 copper, and a record with the
\* moneyGold, moneySilver, moneyCopper triple is shown as those three numbers.
C10_MoneyNormalized ==
  (resp.n > 0 /\ resp.request.route = "/death/:id" /\ resp.status = 200) =>
    LET d == resp.record
        triple == Has(d, "moneyGold") /\ Has(d, "moneySilver") /\ Has(d, "moneyCopper")
    IN /\ (Has(d, "moneyCopperOnly") /\ ~triple) =>
            resp.money = [shown |-> TRUE, g |-> d.moneyCopperOnly \div 10000,
                          s |-> (d.moneyCopperOnly % 10000) \div 100,
                          c |-> d.moneyCopperOnly % 100]
       /\ triple =>
            resp.money = [shown |-> TRUE, g |-> d.moneyGold, s |-> d.moneySilver,
                          c |-> d.moneyCopper]

\* the last response answers a profile request
IsProfile == resp.n > 0 /\ resp.request.route = "/player/:slug"
\* the player@realm key of a record
KeyOf(d) ==
  (IF Has(d, "player") THEN d.player ELSE "Unknown") \o "@"
    \o (IF Has(d, "realm") THEN d.realm ELSE "Unknown")
\* the records of the store with that key, and the sum of their copper totals
Selected(slug) == SelectSeq(Store, LAMBDA d : KeyOf(d) = slug)
RECURSIVE SumCopper(_)
SumCopper(seq) ==
  IF seq = << >> THEN 0
  ELSE SumCopper(Tail(seq))
         + (IF Has(Head(seq), "moneyCopperOnly") THEN Head(seq).moneyCopperOnly ELSE 0)
SomeCopper(seq) == \E i \in DOMAIN seq : Has(seq[i], "moneyCopperOnly")
\* g, s, c are the gold, silver, copper digits of the amount
Decomposes(t, amount) ==
  /\ t.shown
  /\ t.g * 10000 + t.s * 100 + t.c = amount
  /\ 0 <= t.s /\ t.s < 100
  /\ 0 <= t.c /\ t.c < 100

\* C11 as stated: the profile page lists exactly the records whose
\* player@realm key is the slug (404 when there is none), counts them, and,
\* when one of them has an integer moneyCopperOnly, reports g, s, c with
\* g*10000 + s*100 + c = the sum of those values and 0 <= s, c < 100.
C11_ProfileTotals ==
  IsProfile =>
    LET mine == Selected(resp.request.slug)
    IN IF mine = << >> THEN resp.status = 404
       ELSE /\ resp.status = 200
            /\ resp.cards = mine
            /\ resp.totalDeaths = Len(mine)
            /\ SomeCopper(mine) => Decomposes(resp.totals, SumCopper(mine))

\* the five characters that are markup
Special == {"&", "<", ">", "\"", "'"}
\* a rendered page
IsMarkup == resp.n > 0 /\ "slots" \in DOMAIN resp

\* C12: on every rendered page (home, detail, profile) no interpolated client
\* value carries one of the five characters & < > " ' as itself: each has been
\* replaced by an entity.
C12_AllFiveEscaped ==
  IsMarkup =>
    \A k \in DOMAIN resp.slots :
      \A i \in DOMAIN resp.slots[k] : resp.slots[k][i] \notin Special

\* the ok uploads of server.js whose stored file has the .tga extension
TgaUploads == {a \in acked : a.variant = "S" /\ a.file # NoFile /\ a.file.ext = ".tga"}
\* the .png file a conversion of the stored file writes
PngOf(file) == [base |-> file.base, ext |-> ".png", bytes |-> tga2png(file.bytes).png]

\* C13: an upload with a stored .tga file and a well-formed death field is
\* answered ok and its record is in the store; after a successful conversion
\* the record's screenshot names the .png file, which exists, and the .tga file
\* is gone; after a failed conversion the screenshot names the original file,
\* which still exists with its original bytes.
C13_TgaConvertOrKeep ==
  /\ (/\ resp.n > 0 /\ resp.request.variant = "S" /\ ~BadDeath(resp.request)
      /\ resp.file # NoFile /\ resp.file.ext = ".tga")
       => /\ resp.status = 200
          /\ \E a \in TgaUploads : a.id = resp.id /\ a.file = resp.file
  /\ \A a \in TgaUploads :
       /\ \E i \in DOMAIN Store : Store[i] = a.record
       /\ IF a.converted
            THEN /\ a.record.screenshot = UrlPath("/uploads", a.file.base, ".png")
                 /\ PngOf(a.file) \in uploads
                 /\ \A f \in uploads : ~(f.base = a.file.base /\ f.ext = ".tga")
            ELSE /\ a.record.screenshot = UrlPath("/uploads", a.file.base, ".tga")
                 /\ a.file \in uploads

\* one upload converted and another kept after a failed conversion, both answered
C13_Witness ==
  /\ \E a \in TgaUploads : a.converted /\ PngOf(a.file) \in uploads
  /\ \E a \in TgaUploads : ~a.converted /\ a.file \in uploads /\ a.file.bytes = "tga"

\* the uploads server.js answered ok
OkUploadsS == {a \in acked : a.variant = "S"}

\* C14: in server.js, under every interleaving of the request handlers, the
\* record of every upload answered ok is in the store in every later state, and
\* the store holds exactly one record per ok upload.
C14_NoLostUpdate ==
  variant = "S" =>
    /\ \A a \in OkUploadsS : \E i \in DOMAIN Store : Store[i] = a.record
    /\ Len(Store) = Cardinality(OkUploadsS)

\* two uploads in flight together, the later arrival answered first, both stored
C14_Witness ==
  /\ variant = "S"
  /\ Len(Store) = 2
  /\ \E a, b \in OkUploadsS :
       /\ a.request.n < b.request.n
       /\ a.id > b.id
       /\ Store[1] = b.record /\ Store[2] = a.record
====
